---- MODULE Spec2Model ----
(***************************************************************************)
(* Momentum SGD operators of caffe2/sgd/momentum_sgd_op.h.                 *)
(*                                                                         *)
(* The workspace maps blob names to tensors; an operator reads its inputs  *)
(* and writes its outputs through blob names, so an output that is bound   *)
(* to the same blob as an input is the same memory (in-place).  A pointer  *)
(* is a blob name and an element offset.  The float values are modelled by *)
(* integers with exact arithmetic.                                         *)
(***************************************************************************)
EXTENDS Integers, Sequences, FiniteSets, TLC

VARIABLES ws, momentum_, nesterov_, call

vars == <<ws, momentum_, nesterov_, call>>

\* ------------------------------------------------------------------ bounds
MaxRows == 2
MaxBlock == 2

GradSeeds == {1}
MomSeeds == {0, 3}
LRs == {2, 3}
Momenta == {0, 2}
LRSizes == {1, 2}
FillVals == {0, 77}
UBOutcomes == {"trap", "continue"}
IndexTypes == {"int32", "int64", "float"}

\* ------------------------------------------------------------------ tensors
Blobs == {"grad", "momentum", "lr", "param", "indices",
          "out_grad", "out_momentum", "out_param"}

Tensor(d0, xs) == [dim0 |-> d0, data |-> xs]

EmptyTensor == Tensor(0, << >>)

Size(t) == Len(t.data)

Dim0(t) == t.dim0

NULL == [blob |-> "NULL", off |-> 0]

Ptr(b, o) == [blob |-> b, off |-> o]

InBuf(w, p, i) == p.blob \in Blobs /\ p.off + i >= 0 /\ p.off + i < Size(w[p.blob])

\* p[i]; a read past the end of a buffer only happens on paths reported "ub"
Load(w, p, i) == IF InBuf(w, p, i) THEN w[p.blob].data[p.off + i + 1] ELSE 0

\* p[i] = v; a write past the end lands outside the modelled buffers
Store(w, p, i, v) ==
    IF InBuf(w, p, i) THEN [w EXCEPT ![p.blob].data[p.off + i + 1] = v] ELSE w

\* Tensor::ResizeLike: the destination takes the source's shape; storage of the
\* right size is kept, storage of another size is replaced by fresh storage
\* whose content is unspecified (fill).
ResizeLike(w, dst, src, fill) ==
    IF Size(w[dst]) = Size(w[src])
    THEN [w EXCEPT ![dst].dim0 = w[src].dim0]
    ELSE [w EXCEPT ![dst] = Tensor(w[src].dim0, [k \in 1..Size(w[src]) |-> fill])]

\* ------------------------------------------------------------------ kernel
\* a = [N, g, m, ng, nm, lr, momentum, nesterov, param]
KernelLR(w, a) == Load(w, a.lr, 0)

\* faulty variant: the step leaves the momentum term out of ng
ClassicStep_NoMomentumInNg(w, a, i) ==
    LET adjusted_gradient == KernelLR(w, a) * Load(w, a.g, i) + a.momentum * Load(w, a.m, i)
        w1 == Store(w, a.nm, i, adjusted_gradient)
    IN  Store(w1, a.ng, i, KernelLR(w, a) * Load(w, a.g, i))

ClassicStep(w, a, i) ==
    LET adjusted_gradient == KernelLR(w, a) * Load(w, a.g, i) + a.momentum * Load(w, a.m, i)
        w1 == Store(w, a.nm, i, adjusted_gradient)
    IN  Store(w1, a.ng, i, adjusted_gradient)

\* faulty variant: m[i] is read again after nm[i] was written
NesterovStep_RereadM(w, a, i) ==
    LET mi == Load(w, a.m, i)
        mi_new == a.momentum * mi + KernelLR(w, a) * Load(w, a.g, i)
        w1 == Store(w, a.nm, i, mi_new)
    IN  Store(w1, a.ng, i, (1 + a.momentum) * mi_new - a.momentum * Load(w1, a.m, i))

\* faulty variant: the look-ahead correction is dropped
NesterovStep_NoLookahead(w, a, i) ==
    LET mi == Load(w, a.m, i)
        mi_new == a.momentum * mi + KernelLR(w, a) * Load(w, a.g, i)
        w1 == Store(w, a.nm, i, mi_new)
    IN  Store(w1, a.ng, i, mi_new)

NesterovStep(w, a, i) ==
    LET mi == Load(w, a.m, i)
        mi_new == a.momentum * mi + KernelLR(w, a) * Load(w, a.g, i)
        w1 == Store(w, a.nm, i, mi_new)
    IN  Store(w1, a.ng, i, (1 + a.momentum) * mi_new - a.momentum * mi)

\* faulty variant: the step is added to the parameter
ParamStep_PlusSign(w, a, i) ==
    IF a.param # NULL
    THEN Store(w, a.param, i, Load(w, a.param, i) + Load(w, a.ng, i))
    ELSE w

ParamStep(w, a, i) ==
    IF a.param # NULL
    THEN Store(w, a.param, i, Load(w, a.param, i) - Load(w, a.ng, i))
    ELSE w

ElementUpdate(w, a, i) ==
    ParamStep(IF ~a.nesterov THEN ClassicStep(w, a, i) ELSE NesterovStep(w, a, i), a, i)

RECURSIVE UpdateLoop(_, _, _)
UpdateLoop(w, a, i) ==
    IF i < a.N THEN UpdateLoop(ElementUpdate(w, a, i), a, i + 1) ELSE w

momentum_sgd_update(w, a) == UpdateLoop(w, a, 0)

\* ------------------------------------------------------------------ operators
Result(o, w) == [outcome |-> o, ws |-> w]

\* CAFFE_ENFORCE(Input(LR).size() == 1); CAFFE_ENFORCE(GRAD.size() == MOMENTUM.size())
DenseEnforce(w) ==
    /\ Size(w["lr"]) = 1
    /\ Size(w["grad"]) = Size(w["momentum"])

DenseArgs(w, out, param) ==
    [N |-> Size(w["grad"]),
     g |-> Ptr("grad", 0),
     m |-> Ptr("momentum", 0),
     ng |-> Ptr(out.grad, 0),
     nm |-> Ptr(out.momentum, 0),
     lr |-> Ptr("lr", 0),
     momentum |-> momentum_,
     nesterov |-> nesterov_,
     param |-> param]

DenseResize(w, out, fill) ==
    ResizeLike(ResizeLike(w, out.grad, "grad", fill), out.momentum, "momentum", fill)

\* faulty variant: the outputs are resized before the checks
MomentumSGDOp_ResizeFirst(w, out, fill) ==
    LET w2 == DenseResize(w, out, fill)
    IN  IF ~DenseEnforce(w2) THEN Result("fail", w2)
        ELSE Result("ok", momentum_sgd_update(w2, DenseArgs(w2, out, NULL)))

MomentumSGDOp_RunOnDevice(w, out, fill) ==
    IF ~DenseEnforce(w) THEN Result("fail", w)
    ELSE LET w2 == DenseResize(w, out, fill)
         IN  Result("ok", momentum_sgd_update(w2, DenseArgs(w2, out, NULL)))

\* Output(OUTPUT_PARAM) is neither resized nor checked: the kernel writes N
\* elements through it whatever its size.
MomentumSGDUpdateOp_RunOnDevice(w, out, fill, ub) ==
    IF ~DenseEnforce(w) THEN Result("fail", w)
    ELSE LET w2 == DenseResize(w, out, fill)
             a == DenseArgs(w2, out, Ptr(out.param, 0))
         IN  IF Size(w2[out.param]) < a.N
             THEN Result("ub", IF ub = "trap" THEN w2 ELSE momentum_sgd_update(w2, a))
             ELSE Result("ok", momentum_sgd_update(w2, a))

SparseEnforce(w) ==
    /\ Size(w["lr"]) = 1
    /\ Size(w["param"]) = Size(w["momentum"])
    /\ Size(w["indices"]) = Dim0(w["grad"])

SparseResize(w, out, fill) ==
    ResizeLike(ResizeLike(ResizeLike(w, out.grad, "grad", fill),
                          out.momentum, "momentum", fill),
               out.param, "param", fill)

SparseRowArgsAt(w, out, block_size, offsetI, offsetIdx, offsetNg) ==
    [N |-> block_size,
     g |-> Ptr("grad", offsetI),
     m |-> Ptr("momentum", offsetIdx),
     ng |-> Ptr(out.grad, offsetNg),
     nm |-> Ptr(out.momentum, offsetIdx),
     lr |-> Ptr("lr", 0),
     momentum |-> momentum_,
     nesterov |-> nesterov_,
     param |-> Ptr(out.param, offsetIdx)]

\* faulty variant: the gradient offset is the row number, not row number times block size
SparseRowArgs_NoBlockOffset(w, out, i, block_size) ==
    LET idx == Load(w, Ptr("indices", 0), i)
    IN  SparseRowArgsAt(w, out, block_size, i, idx * block_size, i)

\* faulty variant: the step is written to row idx of the output gradient
SparseRowArgs_NgAtIdx(w, out, i, block_size) ==
    LET idx == Load(w, Ptr("indices", 0), i)
    IN  SparseRowArgsAt(w, out, block_size, i * block_size, idx * block_size,
                        idx * block_size)

SparseRowArgs(w, out, i, block_size) ==
    LET idx == Load(w, Ptr("indices", 0), i)
        offsetI == i * block_size
        offsetIdx == idx * block_size
    IN  [N |-> block_size,
         g |-> Ptr("grad", offsetI),
         m |-> Ptr("momentum", offsetIdx),
         ng |-> Ptr(out.grad, offsetI),
         nm |-> Ptr(out.momentum, offsetIdx),
         lr |-> Ptr("lr", 0),
         momentum |-> momentum_,
         nesterov |-> nesterov_,
         param |-> Ptr(out.param, offsetIdx)]

\* faulty variant: the rows are processed from the last to the first
RECURSIVE SparseLoop_Reverse(_, _, _, _, _)
SparseLoop_Reverse(w, out, i, n, block_size) ==
    IF i < n
    THEN SparseLoop_Reverse(
             momentum_sgd_update(w, SparseRowArgs(w, out, n - 1 - i, block_size)),
             out, i + 1, n, block_size)
    ELSE w

RECURSIVE SparseLoop(_, _, _, _, _)
SparseLoop(w, out, i, n, block_size) ==
    IF i < n
    THEN SparseLoop(momentum_sgd_update(w, SparseRowArgs(w, out, i, block_size)),
                    out, i + 1, n, block_size)
    ELSE w

\* every row identifier addresses a whole row inside the parameter buffer
IndicesInRange(w, n, block_size) ==
    \A i \in 0..(n - 1) :
        LET idx == Load(w, Ptr("indices", 0), i)
        IN  idx >= 0 /\ (idx + 1) * block_size <= Size(w["param"])

SparseMomentumSGDUpdateOp_DoRunWithType(w, out, fill, ub) ==
    IF ~SparseEnforce(w) THEN Result("fail", w)
    ELSE LET w2 == SparseResize(w, out, fill)
             n == Dim0(w2["grad"])
         IN  IF n = 0
             THEN \* Input(GRAD).size() / n divides by zero
                  IF ub = "trap" THEN Result("ub", w2) ELSE Result("ok", w2)
             ELSE LET block_size == Size(w2["grad"]) \div n
                      w3 == SparseLoop(w2, out, 0, n, block_size)
                  IN  IF IndicesInRange(w2, n, block_size)
                      THEN Result("ok", w3)
                      ELSE Result("ub", IF ub = "trap" THEN w2 ELSE w3)

\* DispatchHelper<TensorTypes<int32_t, int64_t>>: both widths run the same
\* DoRunWithType, any other element type of INDICES fails the call.
SparseMomentumSGDUpdateOp_RunOnDevice(w, out, itype, fill, ub) ==
    IF itype \in {"int32", "int64"}
    THEN SparseMomentumSGDUpdateOp_DoRunWithType(w, out, fill, ub)
    ELSE Result("fail", w)

\* ------------------------------------------------------------------ host
\* Which blob each output is bound to (the operator definition's output
\* names).  The dense operators may run in place or into distinct blobs; the
\* sparse operator updates momentum and parameter in place, its gradient
\* output may be in place or distinct.  A distinct gradient or momentum
\* output starts as an empty blob, "out_param" as a stale tensor.
Bind(g, m, p) == [grad |-> g, momentum |-> m, param |-> p]

MomentumSGDBindings ==
    {Bind(g, m, "NULL") : g \in {"grad", "out_grad"}, m \in {"momentum", "out_momentum"}}

MomentumSGDUpdateBindings ==
    {Bind(g, m, p) : g \in {"grad", "out_grad"}, m \in {"momentum", "out_momentum"},
                     p \in {"param", "out_param"}}

SparseBindings ==
    {Bind(g, "momentum", "param") : g \in {"grad", "out_grad"}}

NoCall == [op |-> "none", out |-> Bind("NULL", "NULL", "NULL"), outcome |-> "none",
           pre |-> [b \in Blobs |-> EmptyTensor]]

Pattern(len, seed, stride) == [k \in 1..len |-> seed + stride * k]

InitWorkspace(n, b, pr, mr, lrn, LR, gs, ms, idx) ==
    [blob \in Blobs |->
        CASE blob = "grad" -> Tensor(n, Pattern(n * b, gs, 1))
          [] blob = "momentum" -> Tensor(mr, Pattern(mr * b, ms, 2))
          [] blob = "lr" -> Tensor(lrn, [k \in 1..lrn |-> LR])
          [] blob = "param" -> Tensor(pr, Pattern(pr * b, 0, 10))
          [] blob = "indices" -> Tensor(Len(idx), idx)
          [] blob = "out_param" -> Tensor(pr, Pattern(pr * b, 100, 1))
          [] OTHER -> EmptyTensor]

Init ==
    /\ \E n \in 0..MaxRows, b \in 1..MaxBlock, pr \in 0..MaxRows, il \in 0..MaxRows :
         \E mr \in {n, pr}, lrn \in LRSizes, LR \in LRs,
            gs \in GradSeeds, ms \in MomSeeds, idx \in [1..il -> 0..(pr - 1)] :
            ws = InitWorkspace(n, b, pr, mr, lrn, LR, gs, ms, idx)
    /\ momentum_ \in Momenta
    /\ nesterov_ \in BOOLEAN
    /\ call = NoCall

Return(op, out, r) ==
    /\ ws' = r.ws
    /\ call' = [op |-> op, out |-> out, outcome |-> r.outcome, pre |-> ws]
    /\ UNCHANGED <<momentum_, nesterov_>>

RunMomentumSGD ==
    /\ call.op = "none"
    /\ \E out \in MomentumSGDBindings, fill \in FillVals :
         Return("MomentumSGD", out, MomentumSGDOp_RunOnDevice(ws, out, fill))

RunMomentumSGDUpdate ==
    /\ call.op = "none"
    /\ \E out \in MomentumSGDUpdateBindings, fill \in FillVals, ub \in UBOutcomes :
         Return("MomentumSGDUpdate", out, MomentumSGDUpdateOp_RunOnDevice(ws, out, fill, ub))

RunSparseMomentumSGDUpdate ==
    /\ call.op = "none"
    /\ \E out \in SparseBindings, itype \in IndexTypes, fill \in FillVals,
          ub \in UBOutcomes :
         Return("SparseMomentumSGDUpdate", out,
                SparseMomentumSGDUpdateOp_RunOnDevice(ws, out, itype, fill, ub))

Next == RunMomentumSGD \/ RunMomentumSGDUpdate \/ RunSparseMomentumSGDUpdate

Spec == Init /\ [][Next]_vars


\* ------------------------------------------------------------------ properties
Pre == call.pre

Ok(op) == call.op = op /\ call.outcome = "ok"

DenseOk == Ok("MomentumSGD") \/ Ok("MomentumSGDUpdate")

SparseOk == Ok("SparseMomentumSGDUpdate")

PreLR == Pre["lr"].data[1]

\* the closed forms of the recurrence, for gradient value g and momentum value m
ExpNM(g, m) == momentum_ * m + PreLR * g

ExpNG(g, m) ==
    IF nesterov_
    THEN (1 + momentum_) * (momentum_ * m + PreLR * g) - momentum_ * m
    ELSE PreLR * g + momentum_ * m

DenseN == Size(Pre["grad"])

\* the closed form holds element for element after a dense call
DenseClosedForm ==
    \A i \in 1..DenseN :
        /\ ws[call.out.momentum].data[i] = ExpNM(Pre["grad"].data[i], Pre["momentum"].data[i])
        /\ ws[call.out.grad].data[i] = ExpNG(Pre["grad"].data[i], Pre["momentum"].data[i])

ParamDecremented ==
    \A i \in 1..DenseN :
        ws[call.out.param].data[i] = Pre[call.out.param].data[i] - ws[call.out.grad].data[i]

\* C1: with nesterov=false the kernel writes nm[i] = ng[i] = LR*g[i] + momentum*m[i]
\* for every i in [0,N), and the parameter row it is given ends as its value
\* before the call minus ng[i].
C1_ClassicUpdate ==
    (DenseOk /\ ~nesterov_) =>
        /\ DenseClosedForm
        /\ \A i \in 1..DenseN :
             ws[call.out.momentum].data[i] = ws[call.out.grad].data[i]
        /\ (call.op = "MomentumSGDUpdate" => ParamDecremented)

C1_Witness ==
    /\ Ok("MomentumSGDUpdate") /\ ~nesterov_ /\ momentum_ # 0
    /\ DenseN = MaxRows * MaxBlock

\* C2: with nesterov=true the kernel writes nm[i] = momentum*m[i] + LR*g[i] and
\* ng[i] = (1+momentum)*nm[i] - momentum*m[i], m[i] being the momentum before
\* the call.
C2_NesterovUpdate ==
    (DenseOk /\ nesterov_) =>
        \A i \in 1..DenseN :
            /\ ws[call.out.momentum].data[i]
                 = momentum_ * Pre["momentum"].data[i] + PreLR * Pre["grad"].data[i]
            /\ ws[call.out.grad].data[i]
                 = (1 + momentum_) * ws[call.out.momentum].data[i]
                   - momentum_ * Pre["momentum"].data[i]

C2_Witness ==
    /\ DenseOk /\ nesterov_ /\ momentum_ # 0
    /\ DenseN = MaxRows * MaxBlock
    /\ call.out.momentum = "momentum"

\* the same call on the same inputs with ng and nm bound to distinct buffers
DistinctRun(fill) ==
    LET out == Bind("out_grad", "out_momentum", call.out.param)
    IN  IF call.op = "MomentumSGD"
        THEN MomentumSGDOp_RunOnDevice(Pre, out, fill)
        ELSE MomentumSGDUpdateOp_RunOnDevice(Pre, out, fill, "trap")

\* C3: in both branches and with or without a parameter row, the kernel run
\* with ng aliased to g and nm aliased to m yields element for element the ng,
\* nm and parameter values of the run with ng and nm as distinct buffers.
C3_AliasingInvariance ==
    (DenseOk /\ call.out.grad = "grad" /\ call.out.momentum = "momentum") =>
        \A fill \in FillVals :
            LET alt == DistinctRun(fill)
            IN  /\ alt.outcome = "ok"
                /\ ws["grad"].data = alt.ws["out_grad"].data
                /\ ws["momentum"].data = alt.ws["out_momentum"].data
                /\ (call.op = "MomentumSGDUpdate" =>
                      ws[call.out.param].data = alt.ws[call.out.param].data)

C3_Witness ==
    /\ Ok("MomentumSGDUpdate") /\ nesterov_ /\ momentum_ # 0
    /\ call.out.grad = "grad" /\ call.out.momentum = "momentum"
    /\ DenseN = MaxRows * MaxBlock

\* ---- sparse update
SparseRows == Dim0(Pre["grad"])

BlockSize == Size(Pre["grad"]) \div SparseRows

PreIndices == Pre["indices"].data

Block(xs, r, bs) == [k \in 1..bs |-> xs[r * bs + k]]

\* the workspace of a dense call on block r of the sparse call's inputs
BlockWorkspace(r) ==
    [blob \in Blobs |->
        CASE blob = "grad" -> Tensor(1, Block(Pre["grad"].data, r, BlockSize))
          [] blob = "momentum" -> Tensor(1, Block(Pre["momentum"].data, r, BlockSize))
          [] blob = "param" -> Tensor(1, Block(Pre["param"].data, r, BlockSize))
          [] blob = "lr" -> Pre["lr"]
          [] OTHER -> EmptyTensor]

IdentityIndices == PreIndices = [k \in 1..SparseRows |-> k - 1]

\* C4: for n > 0, the sparse update with the index list [0,1,...,n-1] produces
\* the output gradient, momentum and parameter of the dense parameter update
\* run once on each of the n blocks (parameter updated in place).
C4_SparseBlockPartition ==
    (SparseOk /\ SparseRows > 0 /\ IdentityIndices) =>
        \A r \in 0..(SparseRows - 1) :
            \A g \in {"grad", "out_grad"}, m \in {"momentum", "out_momentum"},
               fill \in FillVals :
                LET dense == MomentumSGDUpdateOp_RunOnDevice(
                                 BlockWorkspace(r), Bind(g, m, "param"), fill, "trap")
                IN  /\ dense.outcome = "ok"
                    /\ Block(ws[call.out.grad].data, r, BlockSize) = dense.ws[g].data
                    /\ Block(ws["momentum"].data, r, BlockSize) = dense.ws[m].data
                    /\ Block(ws["param"].data, r, BlockSize) = dense.ws["param"].data

C4_Witness ==
    /\ SparseOk /\ SparseRows = MaxRows /\ IdentityIndices
    /\ BlockSize = MaxBlock /\ momentum_ # 0

\* momentum and parameter of element e of row idx after the gradient rows
\* 1..k of the call were applied one after the other
RECURSIVE RowStateAfter(_, _, _)
RowStateAfter(idx, e, k) ==
    IF k = 0
    THEN [m |-> Pre["momentum"].data[idx * BlockSize + e],
          p |-> Pre["param"].data[idx * BlockSize + e]]
    ELSE LET s == RowStateAfter(idx, e, k - 1)
             g == Pre["grad"].data[(k - 1) * BlockSize + e]
         IN  IF PreIndices[k] = idx
             THEN [m |-> ExpNM(g, s.m), p |-> s.p - ExpNG(g, s.m)]
             ELSE s

Occurrences(idx) == {k \in 1..SparseRows : PreIndices[k] = idx}

Duplicated == {idx \in {PreIndices[k] : k \in 1..SparseRows} : Cardinality(Occurrences(idx)) > 1}

Last(idx) == CHOOSE k \in Occurrences(idx) : \A j \in Occurrences(idx) : j <= k

\* C5: when the index list names row idx at two positions i < j, the final
\* momentum and parameter at row idx are those of row j's update applied to
\* the state row i's update left: rows are applied in index-list order, each
\* reading what the previous one wrote.
C5_DuplicateSequential ==
    SparseOk =>
        \A idx \in Duplicated : \A e \in 1..BlockSize :
            LET s == RowStateAfter(idx, e, SparseRows)
            IN  /\ ws["momentum"].data[idx * BlockSize + e] = s.m
                /\ ws["param"].data[idx * BlockSize + e] = s.p

C5_Witness ==
    /\ SparseOk /\ Duplicated # {} /\ momentum_ # 0
    /\ BlockSize = MaxBlock

\* the same sparse call with the gradient rows before row k set to zero
ZeroedEarlierRun(k) ==
    LET pre0 == [Pre EXCEPT !["grad"].data =
                    [x \in 1..Size(Pre["grad"]) |->
                        IF x <= (k - 1) * BlockSize THEN 0 ELSE Pre["grad"].data[x]]]
    IN  SparseMomentumSGDUpdateOp_DoRunWithType(pre0, call.out, 0, "trap")

\* C6 as stated: when two gradient rows map to the same idx, the final momentum
\* and parameter at row idx do not depend on the earlier row's values (the
\* later row overwrites, nothing accumulates).
C6_NoDependenceOnEarlierRow ==
    SparseOk =>
        \A idx \in Duplicated : \A e \in 1..BlockSize :
            LET alt == ZeroedEarlierRun(Last(idx))
            IN  /\ ws["momentum"].data[idx * BlockSize + e]
                     = alt.ws["momentum"].data[idx * BlockSize + e]
                /\ ws["param"].data[idx * BlockSize + e]
                     = alt.ws["param"].data[idx * BlockSize + e]

RECURSIVE SumSteps(_, _, _)
SumSteps(idx, e, k) ==
    IF k = 0 THEN 0
    ELSE SumSteps(idx, e, k - 1)
         + (IF PreIndices[k] = idx
            THEN ws[call.out.grad].data[(k - 1) * BlockSize + e] ELSE 0)

\* C6 amended: when two gradient rows map to the same idx there is no conflict
\* detection; the momentum at row idx is the one the last such row wrote,
\* computed from the momentum the row before it left, and the parameter at row
\* idx has the step of every row naming idx subtracted from it.
C6_DuplicateAccumulates ==
    SparseOk =>
        \A idx \in Duplicated : \A e \in 1..BlockSize :
            /\ ws["param"].data[idx * BlockSize + e]
                 = Pre["param"].data[idx * BlockSize + e] - SumSteps(idx, e, SparseRows)
            /\ ws["momentum"].data[idx * BlockSize + e]
                 = ExpNM(Pre["grad"].data[(Last(idx) - 1) * BlockSize + e],
                         RowStateAfter(idx, e, Last(idx) - 1).m)

C6_Witness ==
    /\ SparseOk /\ Duplicated # {} /\ momentum_ # 0 /\ nesterov_
    /\ BlockSize = MaxBlock

\* the length relations the operators state
ViolatesLengths ==
    \/ /\ call.op \in {"MomentumSGD", "MomentumSGDUpdate"}
       /\ \/ Size(Pre["grad"]) # Size(Pre["momentum"])
          \/ Size(Pre["lr"]) # 1
    \/ /\ call.op = "SparseMomentumSGDUpdate"
       /\ \/ Size(Pre["lr"]) # 1
          \/ Size(Pre["param"]) # Size(Pre["momentum"])
          \/ Size(Pre["indices"]) # Dim0(Pre["grad"])

\* C7: a call whose inputs violate a stated length relation fails, and fails
\* before any output is resized or written: the workspace is as before the call.
C7_ValidationBeforeOutput ==
    ViolatesLengths => (call.outcome = "fail" /\ ws = Pre)

C7_Witness ==
    /\ call.op = "MomentumSGD" /\ call.outcome = "fail"
    /\ Size(Pre["grad"]) # Size(Pre["momentum"]) /\ Size(Pre["grad"]) > 0
    /\ call.out.grad = "out_grad"

\* C8 as stated: in the dense parameter update with the output parameter
\* distinct from the input parameter, the output parameter ends as the input
\* parameter minus the step.
C8_DistinctParamIsInputMinusStep ==
    (Ok("MomentumSGDUpdate") /\ call.out.param = "out_param") =>
        \A i \in 1..DenseN :
            ws["out_param"].data[i] = Pre["param"].data[i] - ws[call.out.grad].data[i]

\* C9 as stated: every sparse call with row identifiers in range either
\* completes or fails a precondition check before any buffer is touched.
C9_CompletesOrFailsClean ==
    call.op = "SparseMomentumSGDUpdate" =>
        \/ call.outcome = "ok"
        \/ call.outcome = "fail" /\ ws = Pre

Named(x) ==
    /\ SparseRows > 0
    /\ \E k \in 1..SparseRows : (x - 1) \div BlockSize = PreIndices[k]

\* C10: a successful sparse update changes only the rows it names: every
\* element of the output momentum and parameter whose row is not in the index
\* list keeps its value, and the step of gradient row i is written to row i of
\* the output gradient.
C10_SparseFrame ==
    SparseOk =>
        /\ \A x \in 1..Size(Pre["momentum"]) :
             ~Named(x) => /\ ws["momentum"].data[x] = Pre["momentum"].data[x]
                          /\ ws["param"].data[x] = Pre["param"].data[x]
        /\ Size(ws["momentum"]) = Size(Pre["momentum"])
        /\ Size(ws["param"]) = Size(Pre["param"])
        /\ SparseRows > 0 =>
             \A k \in 1..SparseRows : \A e \in 1..BlockSize :
                 ws[call.out.grad].data[(k - 1) * BlockSize + e]
                   = ExpNG(Pre["grad"].data[(k - 1) * BlockSize + e],
                           RowStateAfter(PreIndices[k], e, k - 1).m)

C10_Witness ==
    /\ SparseOk /\ SparseRows > 0 /\ BlockSize = MaxBlock
    /\ \E x \in 1..Size(Pre["momentum"]) : ~Named(x)
    /\ \E k \in 1..SparseRows : PreIndices[k] # k - 1
====
